---- MODULE Spec2Model ----
(***************************************************************************)
(* Model of the exercise generators of the exercism Rust track:            *)
(*   - util/exercise/src/cmd/generate.rs: generate_exercise and            *)
(*     generate_tests_from_canonical_data (tool = "util");                 *)
(*   - init_exercise/src/cmd/generate.rs: generate_exercise (tool =        *)
(*     "init");                                                            *)
(*   - util/exercise/src/cmd/templates/test_file.rs: the test file         *)
(*     template (tool = "template").                                       *)
(* One behaviour is one call of generate_exercise, or one rendering of the *)
(* template; a successful generate_tests_from_canonical_data may be        *)
(* followed (for the determinism property) by a second call on the same    *)
(* document.                                                               *)
(***************************************************************************)
EXTENDS Integers, Sequences, FiniteSets, TLC

VARIABLES
    tool,                \* which generator runs
    exercise_exists,     \* the exercise directory exists before the call
    fs,                  \* paths created or rewritten by the call
    commands,            \* external commands run so far, with their caller
    rendered,            \* output of the test file template
    canonical_data,      \* the parsed JSON document, once fetched
    pc,                  \* position in the running function
    i,                   \* index of the outer `for case in cases` loop
    j,                   \* index of the inner `for sub_case in sub_cases` loop
    property_functions,  \* HashMap<&str, String>
    test_functions,      \* Vec<String>
    tests_file,          \* content of tests/<exercise>.rs, as written chunks
    pending,             \* HashMap entries the write loop has not yet visited
    formatted,           \* rustfmt has been run on the tests file
    err,                 \* error message of the Err returned, "" if none
    run,                 \* 1 for the first call, 2 for the second
    first_output         \* tests file left by the first call

vars == <<tool, exercise_exists, fs, commands, rendered,
          canonical_data, pc, i, j, property_functions, test_functions,
          tests_file, pending, formatted, err, run, first_output>>

\* the state outside generate_tests_from_canonical_data
outer == <<tool, exercise_exists, fs, rendered>>

(***************************************************************************)
(* Bounds of the explored inputs.                                          *)
(***************************************************************************)
\* total number of JSON nodes (cases, groups, children) in the document
MaxNodes == 4

\* JSON field states other than a string value
Absent == "<absent>"
NotStr == "<not a string>"

Descs == {"Case One", "case-one"}
Props == {"p", "q"}

(***************************************************************************)
(* The canonical-data tree.  A node is a JSON object; cases_kind tells     *)
(* whether it has a "cases" key and whether its value is an array.         *)
(***************************************************************************)
Node(d, p, k, cs) == [description |-> d, property |-> p, cases_kind |-> k, cases |-> cs]

WellFormedLeaves == {Node(d, p, "absent", <<>>) : d \in Descs, p \in Props}

MalformedLeaves ==
    { Node("Case One", Absent, "absent", <<>>),
      Node(Absent, "p", "absent", <<>>),
      Node("case-one", NotStr, "absent", <<>>) }

LeafNodes == WellFormedLeaves \cup MalformedLeaves

\* a child of a group that is itself a group (two levels of nesting)
NestedGroups ==
    { Node("Case One", p, "array", <<Node("case-one", "q", "absent", <<>>)>>) :
        p \in {"p", Absent} }

NodeSize(n) == 1 + Len(n.cases)

RECURSIVE ChildSeqs(_)
\* sequences of group children with n JSON nodes in total
ChildSeqs(n) ==
    IF n = 0 THEN {<<>>}
    ELSE UNION { { <<c>> \o rest : rest \in ChildSeqs(n - NodeSize(c)) } :
                 c \in {x \in LeafNodes \cup NestedGroups : NodeSize(x) <= n} }

\* top-level nodes with n JSON nodes in total
TopNodes(n) ==
    (IF n = 1 THEN LeafNodes \cup { Node("Case One", Absent, "notarray", <<>>),
                                    Node("Case One", "p", "array", <<>>) }
              ELSE {})
    \cup { Node("Case One", Absent, "array", cs) : cs \in ChildSeqs(n - 1) }

RECURSIVE CaseSeqs(_)
\* top-level `cases` arrays with n JSON nodes in total
CaseSeqs(n) ==
    IF n = 0 THEN {<<>>}
    ELSE UNION { { <<c>> \o rest : c \in TopNodes(k), rest \in CaseSeqs(n - k) } :
                 k \in 1..n }

TopNodesOf == [k \in 1..MaxNodes |-> TopNodes(k)]
CaseSeqsOf == [n \in 0..(MaxNodes - 1) |-> CaseSeqs(n)]

\* no document has been fetched yet
NoDocument == [cases_kind |-> "unfetched", cases |-> <<>>]

\* d is a canonical-data document of at most MaxNodes JSON nodes
IsDocument(d) ==
    \/ d = [cases_kind |-> "absent", cases |-> <<>>]
    \/ d = [cases_kind |-> "notarray", cases |-> <<>>]
    \/ d = [cases_kind |-> "array", cases |-> <<>>]
    \/ \E n \in 1..MaxNodes : \E k \in 1..n :
         \E c \in TopNodesOf[k], rest \in CaseSeqsOf[n - k] :
            d = [cases_kind |-> "array", cases |-> <<c>> \o rest]

(***************************************************************************)
(* Text produced by the generator.  Text is a sequence of lines; a line is *)
(* a record [k, v]: k is the line's fixed part, v the interpolated value.  *)
(***************************************************************************)
Line(k, v) == [k |-> k, v |-> v]

IgnoreLine == Line("attr", "#[ignore]")

\* format!("//! Tests for {exercise_name} ... {tests_content}")
updated_tests_content == << Line("header", "exercise_name"), Line("body", "tests_content") >>

\* exercise::generate_property_body(property)
generate_property_body(property) ==
    << Line("helper_doc", property), Line("helper_fn", property) >>

\* the characters of a description string
DescChars(d) ==
    IF d = "Case One" THEN <<"C", "a", "s", "e", " ", "O", "n", "e">>
    ELSE IF d = "case-one" THEN <<"c", "a", "s", "e", "-", "o", "n", "e">>
    ELSE <<>>

IsAlphanumeric(c) == c \notin {" ", "-"}

ToLowercase(c) == IF c = "C" THEN "c" ELSE IF c = "O" THEN "o" ELSE c

RECURSIVE normalize(_, _)
\* lowercase; every run of non-alphanumeric characters becomes one separator
normalize(chars, in_run) ==
    IF chars = <<>> THEN ""
    ELSE IF IsAlphanumeric(Head(chars))
    THEN ToLowercase(Head(chars)) \o normalize(Tail(chars), FALSE)
    ELSE (IF in_run THEN "" ELSE "_") \o normalize(Tail(chars), TRUE)

\* exercise::format_exercise_description(description): the identifier-safe
\* token of a test unit's name
format_exercise_description(description) == normalize(DescChars(description), FALSE)

\* exercise::generate_test_function(case, use_maplit): Result<String>
generate_test_function(case) ==
    IF case.description \in {Absent, NotStr}
    THEN [ok |-> FALSE, text |-> <<>>, msg |-> "description missing"]
    ELSE IF case.property \in {Absent, NotStr}
    THEN [ok |-> FALSE, text |-> <<>>, msg |-> "property missing"]
    ELSE [ok |-> TRUE, msg |-> "",
          text |-> << Line("attr", "#[test]"), IgnoreLine,
                      Line("doc", case.description),
                      Line("fn", "test_" \o format_exercise_description(case.description)),
                      Line("call", case.property) >>]

\* String::replace("#[ignore]\n", ""): every occurrence is removed
replace_ignore(text) == SelectSeq(text, LAMBDA l : l # IgnoreLine)

\* the chunk a write appends to the tests file
Chunk(kind, text) == [kind |-> kind, text |-> text]

\* variant: the file is opened for writing without append(true)
write_all_truncating(file, chunks) == chunks

\* OpenOptions::new().append(true) + write_all: the chunks go to the end of the file
write_all(file, chunks) == file \o chunks

EmptyMap == [p \in {} |-> <<>>]

\* variant: the guard is `is_empty()` instead of `!contains_key(property)`
insert_if_empty(map, property) ==
    IF DOMAIN map # {} THEN map
    ELSE [p \in {property} |-> generate_property_body(property)]

\* variant: the map is created anew at the insertion
insert_into_new_map(map, property) ==
    IF property \in DOMAIN map THEN map
    ELSE [p \in {property} |-> generate_property_body(property)]

\* property_functions.insert(property, body) guarded by !contains_key(property)
insert_if_absent(map, property) ==
    IF property \in DOMAIN map THEN map
    ELSE [p \in DOMAIN map \cup {property} |->
            IF p = property THEN generate_property_body(property) ELSE map[p]]

\* variant: the push sits inside the `if !contains_key` block
visit_push_when_new(case) ==
    IF case.property = NotStr
    THEN [msg |-> "property inexpressable as str",
          pf |-> property_functions, tf |-> test_functions]
    ELSE LET pf == IF case.property = Absent THEN property_functions
                   ELSE insert_if_absent(property_functions, case.property)
             r == generate_test_function(case)
         IN IF r.ok
            THEN [msg |-> "", pf |-> pf,
                  tf |-> IF case.property \in DOMAIN property_functions
                         THEN test_functions
                         ELSE Append(test_functions, r.text)]
            ELSE [msg |-> r.msg, pf |-> pf, tf |-> test_functions]

\* variant: `if let Ok(f) = generate_test_function(..) { push(f) }`, no `?`
visit_swallowing_errors(case) ==
    IF case.property = NotStr
    THEN [msg |-> "property inexpressable as str",
          pf |-> property_functions, tf |-> test_functions]
    ELSE LET pf == IF case.property = Absent THEN property_functions
                   ELSE insert_if_absent(property_functions, case.property)
             r == generate_test_function(case)
         IN [msg |-> "", pf |-> pf,
             tf |-> IF r.ok THEN Append(test_functions, r.text) ELSE test_functions]

\* the body of either loop for one leaf `case` (lines 112-123 and 126-136):
\* the resulting error message, registry and vector
visit(case) ==
    IF case.property = NotStr
    THEN [msg |-> "property inexpressable as str",
          pf |-> property_functions, tf |-> test_functions]
    ELSE LET pf == IF case.property = Absent THEN property_functions
                   ELSE insert_if_absent(property_functions, case.property)
             r == generate_test_function(case)
         IN IF r.ok
            THEN [msg |-> "", pf |-> pf, tf |-> Append(test_functions, r.text)]
            ELSE [msg |-> r.msg, pf |-> pf, tf |-> test_functions]

\* variant: pop() instead of remove(0), push instead of insert(0, ..)
strip_last(tf) ==
    IF tf # <<>>
    THEN SubSeq(tf, 1, Len(tf) - 1) \o <<replace_ignore(tf[Len(tf)])>>
    ELSE tf

\* variant: remove(0), replace, push(..) instead of insert(0, ..)
strip_first_push_back(tf) ==
    IF tf # <<>> THEN Tail(tf) \o <<replace_ignore(Head(tf))>> ELSE tf

\* variant: the replace is applied to every element
strip_all(tf) == [n \in 1..Len(tf) |-> replace_ignore(tf[n])]

\* lines 140-144: remove(0), replace, insert(0, ..)
strip_first(tf) ==
    IF tf # <<>> THEN <<replace_ignore(Head(tf))>> \o Tail(tf) ELSE tf

(***************************************************************************)
(* The test file template, templates/test_file.rs, rendered by Tera.       *)
(* The state of a rendering: the global `properties` array, the global     *)
(* `dont_ignore` flag, the text rendered so far, and the error message of  *)
(* a failed rendering ("" while it succeeds).                              *)
(***************************************************************************)
\* macros::gen_test_fn(case=case, dont_ignore=dont_ignore)
gen_test_fn(case, dont_ignore) ==
    IF case.description \in {Absent, NotStr}
    THEN [ok |-> FALSE, text |-> <<>>, msg |-> "description missing"]
    ELSE IF case.property \in {Absent, NotStr}
    THEN [ok |-> FALSE, text |-> <<>>, msg |-> "property missing"]
    ELSE [ok |-> TRUE, msg |-> "",
          text |-> << Line("attr", "#[test]") >>
                   \o (IF dont_ignore THEN <<>> ELSE <<IgnoreLine>>)
                   \o << Line("doc", case.description),
                         Line("fn", "test_" \o format_exercise_description(case.description)),
                         Line("call", case.property) >>]

\* {% include "property_fn.rs" %}
property_fn(property) == generate_property_body(property)

\* lines 19-20: {% set properties = [] %} {% set dont_ignore = true %}
TemplateStart ==
    [properties |-> <<>>, dont_ignore |-> TRUE, msg |-> "",
     out |-> << Chunk("preamble", <<Line("header", "exercise_name")>>) >>]

\* Tera's truth value of `item.cases`: undefined and the empty array are false
is_truthy(item) == item.cases_kind # "absent" /\ ~(item.cases_kind = "array" /\ item.cases = <<>>)

\* variant: the dont_ignore flag is never reset
render_case_never_ignoring(st, case) ==
    IF st.msg # "" THEN st
    ELSE IF case.property = Absent
    THEN [st EXCEPT !.msg = "variable property not found in context"]
    ELSE LET r == gen_test_fn(case, st.dont_ignore) IN
         IF ~r.ok THEN [st EXCEPT !.msg = r.msg]
         ELSE [st EXCEPT !.properties = Append(@, case.property),
                         !.out = Append(@, Chunk("test", r.text))]

\* lines 37-39 and 44-46: record the property, render the test function,
\* reset dont_ignore
render_case(st, case) ==
    IF st.msg # "" THEN st
    ELSE IF case.property = Absent
    THEN [st EXCEPT !.msg = "variable property not found in context"]
    ELSE LET r == gen_test_fn(case, st.dont_ignore) IN
         IF ~r.ok THEN [st EXCEPT !.msg = r.msg]
         ELSE [st EXCEPT !.properties = Append(@, case.property),
                         !.dont_ignore = FALSE,
                         !.out = Append(@, Chunk("test", r.text))]

RECURSIVE render_cases(_, _)
\* lines 36-40: {% for case in item.cases %}
render_cases(st, cases) ==
    IF cases = <<>> THEN st
    ELSE render_cases(render_case(st, Head(cases)), Tail(cases))

\* lines 23-47: one item of the top-level loop.  A "cases" value that is not
\* an array cannot be iterated if it is true, and makes the item a single
\* case without property if it is false: the rendering fails either way.
render_item(st, item) ==
    IF st.msg # "" THEN st
    ELSE IF is_truthy(item)
    THEN IF item.cases_kind = "notarray"
         THEN [st EXCEPT !.msg = "cases is not iterable"]
         ELSE IF item.description = Absent
         THEN [st EXCEPT !.msg = "variable description not found in context"]
         ELSE render_cases(
                [st EXCEPT !.out = Append(@, Chunk("group_doc", <<Line("doc", item.description)>>))],
                item.cases)
    ELSE render_case(st, item)

RECURSIVE render_items(_, _)
\* lines 22-48: {% for item in cases %}
render_items(st, items) ==
    IF items = <<>> THEN st
    ELSE render_items(render_item(st, Head(items)), Tail(items))

RECURSIVE unique(_)
\* Tera's `unique` filter: the first occurrence of every element is kept
unique(seq) ==
    IF seq = <<>> THEN <<>>
    ELSE <<Head(seq)>> \o unique(SelectSeq(Tail(seq), LAMBDA x : x # Head(seq)))

\* the whole template applied to a document
test_file(doc) ==
    IF doc.cases_kind # "array"
    THEN [TemplateStart EXCEPT !.msg = "cases is not iterable"]
    ELSE LET st == render_items(TemplateStart, doc.cases)
             props == unique(st.properties)
         IN IF st.msg # "" THEN st
            ELSE [st EXCEPT !.out = @ \o [n \in 1..Len(props) |->
                                            Chunk("property", property_fn(props[n]))]]

(***************************************************************************)
(* The state machine.                                                      *)
(***************************************************************************)
\* the test file as generate_exercise creates it (lines 240-254)
Scaffolded == << Chunk("scaffold", <<Line("body", "tests_content")>>) >>

Command(cmd, by) == [cmd |-> cmd, by |-> by]

Init ==
    /\ tool \in {"util", "init", "template"}
    /\ exercise_exists \in BOOLEAN
    /\ tool = "template" => ~exercise_exists
    /\ fs = {}
    /\ commands = <<>>
    /\ rendered = <<>>
    /\ canonical_data = NoDocument
    /\ pc = IF tool = "template" THEN "tpl_start" ELSE "ge_start"
    /\ i = 1
    /\ j = 1
    /\ property_functions = EmptyMap
    /\ test_functions = <<>>
    /\ tests_file = <<>>
    /\ pending = {}
    /\ formatted = FALSE
    /\ err = ""
    /\ run = 1
    /\ first_output = <<>>

\* variant: the error is recorded and the loop left with `break`
Fail_and_continue(msg) ==
    /\ pc' = "strip"
    /\ err' = msg

\* `return Err(..)` / `?`: the error ends generate_tests_from_canonical_data
\* and, through the `?` at line 267, generate_exercise
Fail(msg) ==
    /\ pc' = "failed"
    /\ err' = msg

\* variant: the existence check comes after `cargo new`
CheckExists_after_cargo_new ==
    /\ pc = "ge_start"
    /\ tool = "util"
    /\ commands' = Append(commands, Command("cargo new", "generate_exercise"))
    /\ fs' = fs \cup {"Cargo.toml", "src/lib.rs"}
    /\ IF exercise_exists
       THEN pc' = "ge_failed" /\ err' = "exercise already exists"
       ELSE pc' = "ge_scaffold" /\ err' = err
    /\ UNCHANGED <<tool, exercise_exists, rendered, canonical_data, i, j, property_functions,
                   test_functions, tests_file, pending, formatted, run, first_output>>

\* util generate_exercise, lines 204-206
CheckExists ==
    /\ pc = "ge_start"
    /\ tool = "util"
    /\ IF exercise_exists
       THEN pc' = "ge_failed" /\ err' = "exercise already exists"
       ELSE pc' = "ge_scaffold" /\ err' = err
    /\ UNCHANGED <<outer, commands, canonical_data, i, j, property_functions,
                   test_functions, tests_file, pending, formatted, run, first_output>>

\* init_exercise generate_exercise, lines 120-137
InitCheckExists ==
    /\ pc = "ge_start"
    /\ tool = "init"
    /\ commands' = Append(commands, Command("git rev-parse", "generate_exercise"))
    /\ IF exercise_exists
       THEN pc' = "panicked" /\ err' = "Exercise already exists. Aborting"
       ELSE pc' = "ge_scaffold" /\ err' = err
    /\ UNCHANGED <<outer, canonical_data, i, j, property_functions,
                   test_functions, tests_file, pending, formatted, run, first_output>>

\* util lines 208-256, init lines 139-187: cargo new, .gitignore, tests file, example.rs
Scaffold ==
    /\ pc = "ge_scaffold"
    /\ commands' = Append(commands, Command("cargo new", "generate_exercise"))
    /\ fs' = fs \cup {"Cargo.toml", "src/lib.rs", ".gitignore", "tests",
                       "tests/exercise.rs", "example.rs"}
    /\ tests_file' = Scaffolded
    /\ pc' = "ge_fetch"
    /\ UNCHANGED <<tool, exercise_exists, rendered, canonical_data, i, j,
                   property_functions, test_functions, pending, formatted, err,
                   run, first_output>>

\* variant: `exercise::get_canonical_data(exercise_name)?` instead of the match
FetchCanonicalData_propagating ==
    /\ pc = "ge_fetch"
    /\ \/ /\ IsDocument(canonical_data')
          /\ pc' = IF tool = "util" THEN "start" ELSE "init_tests"
          /\ err' = err
       \/ /\ canonical_data' = canonical_data
          /\ pc' = "ge_failed"
          /\ err' = "Failed to get canonical data"
    /\ UNCHANGED <<outer, commands, i, j, property_functions, test_functions,
                   tests_file, pending, formatted, run, first_output>>

\* util line 258, init lines 36-51 and 189: the canonical data is found or not
FetchCanonicalData ==
    /\ pc = "ge_fetch"
    /\ \/ /\ IsDocument(canonical_data')
          /\ pc' = IF tool = "util" THEN "start" ELSE "init_tests"
       \/ /\ canonical_data' = canonical_data
          /\ pc' = "default_meta"
    /\ UNCHANGED <<outer, commands, i, j, property_functions, test_functions,
                   tests_file, pending, formatted, err, run, first_output>>

\* util lines 35-60, init lines 54-81
GenerateDefaultMeta ==
    /\ pc = "default_meta"
    /\ fs' = fs \cup {".meta", ".meta/description.md", ".meta/metadata.yml"}
    /\ tests_file' = write_all(tests_file,
                        << Chunk("placeholder", <<Line("comment", "// Add your tests here")>>) >>)
    /\ pc' = IF tool = "util" THEN "readme" ELSE "ge_done"
    /\ UNCHANGED <<tool, exercise_exists, rendered, commands, canonical_data, i, j,
                   property_functions, test_functions, pending, formatted, err,
                   run, first_output>>

\* init lines 84-116: generate_tests_from_canonical_data only rewrites Cargo.toml
InitGenerateTests ==
    /\ pc = "init_tests"
    /\ fs' = fs \cup {"Cargo.toml"}
    /\ pc' = "ge_done"
    /\ UNCHANGED <<tool, exercise_exists, rendered, commands, canonical_data, i, j,
                   property_functions, test_functions, tests_file, pending,
                   formatted, err, run, first_output>>

\* util lines 160-200 and 280: clone problem-specifications if missing, run configlet
GenerateReadme ==
    /\ pc \in {"done", "readme"}
    /\ \E cloned \in BOOLEAN :
         /\ commands' = commands
                \o (IF cloned THEN <<Command("git clone", "generate_readme")>> ELSE <<>>)
                \o <<Command("configlet generate", "generate_readme")>>
         /\ fs' = fs \cup {"README.md"}
                \cup (IF cloned THEN {"../problem-specifications"} ELSE {})
    /\ pc' = "ge_done"
    /\ UNCHANGED <<tool, exercise_exists, rendered, canonical_data, i, j,
                   property_functions, test_functions, tests_file, pending,
                   formatted, err, run, first_output>>

\* lines 69-95: fs::write(&tests_path, updated_tests_content)
WritePreamble ==
    /\ pc = "start"
    /\ tests_file' = << Chunk("preamble", updated_tests_content) >>
    /\ pc' = "get_cases"
    /\ UNCHANGED <<outer, commands, canonical_data, i, j, property_functions, test_functions,
                   pending, formatted, err, run, first_output>>

\* variant: an empty `cases` array is rejected
GetCases_rejecting_empty ==
    /\ pc = "get_cases"
    /\ IF canonical_data.cases_kind = "absent"
       THEN Fail("cases list not present in canonical data")
       ELSE IF canonical_data.cases_kind = "notarray"
       THEN Fail("case list inexpressable as array")
       ELSE IF canonical_data.cases = <<>>
       THEN Fail("case list is empty")
       ELSE pc' = "loop" /\ err' = err
    /\ UNCHANGED <<outer, commands, canonical_data, i, j, property_functions, test_functions,
                   tests_file, pending, formatted, run, first_output>>

\* variant: a missing or non-array `cases` is taken as the empty list
GetCases_defaulting ==
    /\ pc = "get_cases"
    /\ pc' = "loop"
    /\ UNCHANGED <<outer, commands, canonical_data, i, j, property_functions,
                   test_functions, tests_file, pending, formatted, err, run, first_output>>

\* lines 97-103: canonical_data.get("cases") ... .as_array()
GetCases ==
    /\ pc = "get_cases"
    /\ IF canonical_data.cases_kind = "absent"
       THEN Fail("cases list not present in canonical data")
       ELSE IF canonical_data.cases_kind = "notarray"
       THEN Fail("case list inexpressable as array")
       ELSE pc' = "loop" /\ err' = err
    /\ UNCHANGED <<outer, commands, canonical_data, i, j, property_functions, test_functions,
                   tests_file, pending, formatted, run, first_output>>

\* lines 101-138: one iteration of the outer loop, or its exit
NextCase ==
    /\ pc = "loop"
    /\ IF i > Len(canonical_data.cases)
       THEN /\ pc' = "strip"
            /\ UNCHANGED <<i, j, property_functions, test_functions, err>>
       ELSE LET case == canonical_data.cases[i] IN
            IF case.cases_kind = "notarray"
            THEN /\ Fail("subcase list inexpressable as array")
                 /\ UNCHANGED <<i, j, property_functions, test_functions>>
            ELSE IF case.cases_kind = "array"
            THEN /\ pc' = "subloop"
                 /\ j' = 1
                 /\ UNCHANGED <<i, property_functions, test_functions, err>>
            ELSE LET r == visit(case) IN
                 /\ property_functions' = r.pf
                 /\ test_functions' = r.tf
                 /\ IF r.msg = "" THEN pc' = "loop" /\ i' = i + 1 /\ err' = err
                                  ELSE Fail(r.msg) /\ i' = i
                 /\ j' = j
    /\ UNCHANGED <<outer, commands, canonical_data, tests_file, pending, formatted, run, first_output>>

\* lines 107-124: one iteration of the inner loop, or its exit
NextSubCase ==
    /\ pc = "subloop"
    /\ LET sub_cases == canonical_data.cases[i].cases IN
       IF j > Len(sub_cases)
       THEN /\ pc' = "loop"
            /\ i' = i + 1
            /\ UNCHANGED <<j, property_functions, test_functions, err>>
       ELSE LET r == visit(sub_cases[j]) IN
            /\ property_functions' = r.pf
            /\ test_functions' = r.tf
            /\ IF r.msg = "" THEN pc' = "subloop" /\ j' = j + 1 /\ err' = err
                             ELSE Fail(r.msg) /\ j' = j
            /\ i' = i
    /\ UNCHANGED <<outer, commands, canonical_data, tests_file, pending, formatted, run, first_output>>

\* lines 140-146: un-ignore the first test function, reopen the file
StripFirst ==
    /\ pc = "strip"
    /\ test_functions' = strip_first(test_functions)
    /\ pending' = DOMAIN property_functions
    /\ pc' = "write_properties"
    /\ UNCHANGED <<outer, commands, canonical_data, i, j, property_functions, tests_file,
                   formatted, err, run, first_output>>

\* lines 148-150: one iteration of `for (_, property_body) in &property_functions`;
\* the iteration order of a std HashMap is unspecified
WriteProperty ==
    /\ pc = "write_properties"
    /\ pending # {}
    /\ \E p \in pending :
         /\ tests_file' = write_all(tests_file, <<Chunk("property", property_functions[p])>>)
         /\ pending' = pending \ {p}
    /\ UNCHANGED <<outer, commands, canonical_data, pc, i, j, property_functions, test_functions,
                   formatted, err, run, first_output>>

\* line 152: tests_file.write_all(test_functions.join("\n\n"))
WriteTests ==
    /\ pc = "write_properties"
    /\ pending = {}
    /\ tests_file' = write_all(tests_file,
                        [n \in 1..Len(test_functions) |-> Chunk("test", test_functions[n])])
    /\ pc' = "rustfmt"
    /\ UNCHANGED <<outer, commands, canonical_data, i, j, property_functions, test_functions,
                   pending, formatted, err, run, first_output>>

\* variant: rustfmt is run before the test functions are written
Rustfmt_before_tests ==
    /\ pc = "write_properties"
    /\ pending = {}
    /\ ~formatted
    /\ formatted' = TRUE
    /\ commands' = Append(commands, Command("rustfmt", "generate_tests_from_canonical_data"))
    /\ UNCHANGED <<outer, canonical_data, pc, i, j, property_functions, test_functions,
                   tests_file, pending, err, run, first_output>>

\* lines 154-156: exercise::rustfmt(&tests_path)?; Ok(())
Rustfmt ==
    /\ pc = "rustfmt"
    /\ formatted' = TRUE
    /\ commands' = Append(commands, Command("rustfmt", "generate_tests_from_canonical_data"))
    /\ pc' = "done"
    /\ UNCHANGED <<outer, canonical_data, i, j, property_functions, test_functions,
                   tests_file, pending, err, run, first_output>>

\* the generator is called again on the same document and the same scaffold
SecondRun ==
    /\ pc = "done"
    /\ run = 1
    /\ run' = 2
    /\ first_output' = tests_file
    /\ pc' = "start"
    /\ i' = 1
    /\ j' = 1
    /\ property_functions' = EmptyMap
    /\ test_functions' = <<>>
    /\ tests_file' = Scaffolded
    /\ pending' = {}
    /\ formatted' = FALSE
    /\ UNCHANGED <<outer, commands, canonical_data, err>>

\* the template is rendered for a fetched document
RenderTemplate ==
    /\ pc = "tpl_start"
    /\ tool = "template"
    /\ IsDocument(canonical_data')
    /\ LET r == test_file(canonical_data') IN
         /\ rendered' = IF r.msg = "" THEN r.out ELSE <<>>
         /\ err' = r.msg
         /\ pc' = IF r.msg = "" THEN "tpl_done" ELSE "tpl_failed"
    /\ UNCHANGED <<tool, exercise_exists, fs, commands, i, j, property_functions,
                   test_functions, tests_file, pending, formatted, run, first_output>>

Next ==
    \/ RenderTemplate
    \/ CheckExists
    \/ InitCheckExists
    \/ Scaffold
    \/ FetchCanonicalData
    \/ GenerateDefaultMeta
    \/ InitGenerateTests
    \/ GenerateReadme
    \/ WritePreamble
    \/ GetCases
    \/ NextCase
    \/ NextSubCase
    \/ StripFirst
    \/ WriteProperty
    \/ WriteTests
    \/ Rustfmt
    \/ SecondRun

Spec == Init /\ [][Next]_vars

(***************************************************************************)
(* Vocabulary of the properties.                                           *)
(***************************************************************************)
RECURSIVE LeafCases(_)
\* the leaf cases of a `cases` array in document order: a top-level node
\* without "cases", or a child of a group
LeafCases(cs) ==
    IF cs = <<>> THEN <<>>
    ELSE (IF Head(cs).cases_kind = "absent" THEN <<Head(cs)>> ELSE Head(cs).cases)
         \o LeafCases(Tail(cs))

Leaves == LeafCases(canonical_data.cases)

IsGroup(n) == n.cases_kind # "absent"

ChunksOf(kind) == SelectSeq(tests_file, LAMBDA c : c.kind = kind)
TestChunks == ChunksOf("test")
PropertyChunks == ChunksOf("property")

Ignored(text) == \E n \in 1..Len(text) : text[n] = IgnoreLine

\* the property a helper body / a test unit names
HelperOf(text) == {l.v : l \in {text[n] : n \in 1..Len(text)} \cap [k : {"helper_fn"}, v : Props]}
CallsOf(text) == {l.v : l \in {text[n] : n \in 1..Len(text)} \cap [k : {"call"}, v : Props]}

RECURSIVE FirstSeen(_, _)
\* the distinct properties of a sequence of cases, in order of first occurrence
FirstSeen(cs, seen) ==
    IF cs = <<>> THEN <<>>
    ELSE IF Head(cs).property \in seen THEN FirstSeen(Tail(cs), seen)
    ELSE <<Head(cs).property>> \o FirstSeen(Tail(cs), seen \cup {Head(cs).property})

Succeeded == pc = "done"

\* generate_tests_from_canonical_data has run past line 91
AfterPreamble ==
    \/ pc \in {"get_cases", "loop", "subloop", "strip", "write_properties",
                "rustfmt", "done", "failed"}
    \/ pc = "ge_done" /\ formatted

(***************************************************************************)
(* Properties.                                                             *)
(***************************************************************************)

C2_OnlyFirstNotIgnored ==
    (Succeeded /\ Len(Leaves) >= 1) =>
        /\ TestChunks # <<>>
        /\ ~Ignored(TestChunks[1].text)
        /\ TestChunks[1].text = replace_ignore(generate_test_function(Leaves[1]).text)
        /\ \A n \in 2..Len(TestChunks) : Ignored(TestChunks[n].text)

C2_Witness ==
    /\ Succeeded
    /\ canonical_data.cases # <<>>
    /\ IsGroup(canonical_data.cases[1])
    /\ Len(canonical_data.cases[1].cases) >= 2
    /\ ~Ignored(TestChunks[1].text)
    /\ Ignored(TestChunks[2].text)

C4_HelpersInFirstSeenOrder ==
    Succeeded =>
        PropertyChunks = [n \in 1..Len(FirstSeen(Leaves, {})) |->
                            Chunk("property", generate_property_body(FirstSeen(Leaves, {})[n]))]

\* C5: a second run on the same document leaves a file identical to the one
\* the first run left.
C5_Deterministic ==
    (Succeeded /\ run = 2) => tests_file = first_output

C7_UnitsInDocumentOrder ==
    pc \in {"write_properties", "rustfmt", "done"} =>
        /\ Len(test_functions) = Len(Leaves)
        /\ \A n \in 1..Len(test_functions) :
             replace_ignore(test_functions[n]) =
                replace_ignore(generate_test_function(Leaves[n]).text)
        /\ pc \in {"rustfmt", "done"} =>
             TestChunks = [n \in 1..Len(test_functions) |-> Chunk("test", test_functions[n])]

C7_Witness ==
    /\ Succeeded
    /\ Len(canonical_data.cases) = 3
    /\ IsGroup(canonical_data.cases[2])
    /\ Len(canonical_data.cases[2].cases) = 1
    /\ Len(TestChunks) = 3
    /\ \A m, n \in 1..3 : m # n =>
         replace_ignore(TestChunks[m].text) # replace_ignore(TestChunks[n].text)

\* C8: an empty top-level `cases` array is not an error, and the finished
\* file holds the preamble only.
C8_EmptyCases ==
    (canonical_data.cases_kind = "array" /\ canonical_data.cases = <<>>) =>
        /\ pc # "failed"
        /\ err = ""
        /\ pc \in {"get_cases", "loop", "strip", "write_properties", "rustfmt", "done"} =>
             tests_file = << Chunk("preamble", updated_tests_content) >>
        /\ property_functions = EmptyMap
        /\ test_functions = <<>>

C8_Witness ==
    /\ Succeeded
    /\ formatted
    /\ canonical_data.cases_kind = "array"
    /\ canonical_data.cases = <<>>

C10_NestedGroupFails ==
    (\E a \in 1..Len(canonical_data.cases) :
        \E b \in 1..Len(canonical_data.cases[a].cases) :
            IsGroup(canonical_data.cases[a].cases[b]))
    => ~Succeeded

\* the name of a test unit
NamesOf(text) == {text[n].v : n \in {m \in 1..Len(text) : text[m].k = "fn"}}

\* C11: no successfully generated file holds two test units of the same
\* name: two leaf cases whose descriptions normalize to the same identifier
\* make the run fail.
C11_UniqueNames ==
    Succeeded =>
        \A m, n \in 1..Len(TestChunks) :
            m # n => NamesOf(TestChunks[m].text) \cap NamesOf(TestChunks[n].text) = {}

\* C12: when the canonical data is not found, generate_exercise does not
\* fail; it writes the default .meta files and the placeholder line of
\* generate_default_meta, and no helper body or test unit is generated.
C12_NotFoundFallsBack ==
    canonical_data = NoDocument =>
        /\ pc # "failed"
        /\ pc \in {"ge_failed", "panicked"} => exercise_exists
        /\ property_functions = EmptyMap
        /\ test_functions = <<>>
        /\ PropertyChunks = <<>>
        /\ TestChunks = <<>>
        /\ ~formatted
        /\ pc \in {"readme", "ge_done"} =>
             /\ {".meta", ".meta/description.md", ".meta/metadata.yml"} \subseteq fs
             /\ tests_file = Scaffolded
                    \o << Chunk("placeholder", <<Line("comment", "// Add your tests here")>>) >>

C12_Witness ==
    /\ pc = "ge_done"
    /\ canonical_data = NoDocument
    /\ tool = "util"
    /\ "README.md" \in fs
    /\ ".meta/metadata.yml" \in fs

\* the groups of the document that have at least one child
NonEmptyGroups ==
    {a \in 1..Len(canonical_data.cases) :
        canonical_data.cases[a].cases_kind = "array" /\ canonical_data.cases[a].cases # <<>>}

\* the number of leaf cases before top-level node a
LeavesBefore(a) == Len(LeafCases(SubSeq(canonical_data.cases, 1, a - 1)))

\* the index in file of its n-th test unit
TestIndex(file, n) ==
    CHOOSE k \in 1..Len(file) :
        /\ file[k].kind = "test"
        /\ Cardinality({m \in 1..k : file[m].kind = "test"}) = n

\* every non-empty group's description stands immediately before the unit
\* of the group's first child, and there is one such block per group
GroupDocsPlaced(file) ==
    /\ \A a \in NonEmptyGroups :
         LET k == TestIndex(file, LeavesBefore(a) + 1) IN
            /\ k > 1
            /\ file[k - 1] = Chunk("group_doc", <<Line("doc", canonical_data.cases[a].description)>>)
    /\ Cardinality({k \in 1..Len(file) : file[k].kind = "group_doc"})
          = Cardinality(NonEmptyGroups)

\* C13: in the generated tests file every group's description is emitted
\* once, as a doc-comment block immediately before the unit of the group's
\* first child.
C13_GroupDocBlock ==
    Succeeded => GroupDocsPlaced(tests_file)

\* the template alone places the group blocks as C13 says, on documents
\* that have no empty group
TemplateGroupDocBlock ==
    (pc = "tpl_done" /\ \A a \in 1..Len(canonical_data.cases) :
                            ~IsGroup(canonical_data.cases[a]) \/ a \in NonEmptyGroups)
    => GroupDocsPlaced(rendered)

\* the properties of the case the walk is about to visit
VisitedProperty ==
    IF pc = "loop" /\ i <= Len(canonical_data.cases)
    THEN {canonical_data.cases[i].property}
    ELSE IF pc = "subloop" /\ j <= Len(canonical_data.cases[i].cases)
    THEN {canonical_data.cases[i].cases[j].property}
    ELSE {}

\* C15: within one run every step keeps all entries of the property registry
\* with their helper bodies; a step adds at most the property of the case it
\* visits, with the body generated for it, and adds nothing if that property
\* is already registered.
C15_RegistryAppendOnly ==
    [][ run' = run =>
          /\ DOMAIN property_functions \subseteq DOMAIN property_functions'
          /\ \A p \in DOMAIN property_functions :
                property_functions'[p] = property_functions[p]
          /\ (DOMAIN property_functions' \ DOMAIN property_functions)
                \subseteq (VisitedProperty \ DOMAIN property_functions)
          /\ \A p \in DOMAIN property_functions' \ DOMAIN property_functions :
                property_functions'[p] = generate_property_body(p) ]_vars

C15_Witness ==
    /\ pc = "strip"
    /\ Cardinality(DOMAIN property_functions) = 2
    /\ Len(test_functions) = 3

\* a unit's text with its skip flag set by rule: the #[ignore] line follows
\* the first line iff skip holds, nothing else differs
set_skip(text, skip) ==
    LET bare == replace_ignore(text) IN
    IF skip THEN <<Head(bare), IgnoreLine>> \o Tail(bare) ELSE bare

RenderedTests == SelectSeq(rendered, LAMBDA c : c.kind = "test")

\* C16: after the remove/strip/reinsert step, and in the template's output,
\* the unit at position n (counted from 0) is skipped iff n # 0, and the units
\* are otherwise as generated.
C16_SkipIsPositionRule ==
    /\ pc \in {"write_properties", "rustfmt", "done"} =>
          test_functions = [n \in 1..Len(Leaves) |->
                              set_skip(generate_test_function(Leaves[n]).text, n - 1 # 0)]
    /\ pc = "tpl_done" =>
          \A n \in 1..Len(RenderedTests) :
              /\ RenderedTests[n].text = set_skip(RenderedTests[n].text, n - 1 # 0)
              /\ Ignored(RenderedTests[n].text) <=> (n - 1 # 0)

C16_Witness ==
    /\ Succeeded
    /\ Len(test_functions) = 3
    /\ ~Ignored(test_functions[1])
    /\ Ignored(test_functions[2])
    /\ Ignored(test_functions[3])

\* the tests file holds the preamble, every registered helper body and every
\* test function
Assembled ==
    /\ tests_file # <<>>
    /\ tests_file[1] = Chunk("preamble", updated_tests_content)
    /\ {PropertyChunks[n].text : n \in 1..Len(PropertyChunks)}
         = {property_functions[p] : p \in DOMAIN property_functions}
    /\ TestChunks = [n \in 1..Len(test_functions) |-> Chunk("test", test_functions[n])]

RustfmtCalls == SelectSeq(commands, LAMBDA c : c.cmd = "rustfmt")

CasesNotAnArray ==
    \/ canonical_data.cases_kind \in {"absent", "notarray"}
    \/ \E a \in 1..Len(canonical_data.cases) : canonical_data.cases[a].cases_kind = "notarray"

\* C18: on such a document generate_tests_from_canonical_data does not
\* succeed, and writes no helper body and no test unit.
C18_CasesRequired ==
    (tool = "util" /\ CasesNotAnArray) =>
        /\ pc \in {"start", "get_cases", "loop", "subloop", "failed"}
        /\ (pc = "failed" /\ canonical_data.cases_kind = "absent")
              => err = "cases list not present in canonical data"
        /\ (pc = "failed" /\ canonical_data.cases_kind = "notarray")
              => err = "case list inexpressable as array"
        /\ PropertyChunks = <<>>
        /\ TestChunks = <<>>
        /\ ~formatted

C18_Witness ==
    /\ pc = "failed"
    /\ err = "subcase list inexpressable as array"
    /\ test_functions # <<>>
    /\ tests_file = << Chunk("preamble", updated_tests_content) >>

\* the groups of the document without children
EmptyGroups ==
    {a \in 1..Len(canonical_data.cases) :
        canonical_data.cases[a].cases_kind = "array" /\ canonical_data.cases[a].cases = <<>>}

\* some leaf case lacks a string description or property
MalformedLeaf ==
    \E n \in 1..Len(Leaves) :
        Leaves[n].description \in {Absent, NotStr} \/ Leaves[n].property \in {Absent, NotStr}

\* the Rust generator on a document with an empty group: one unit per leaf
\* case, the first leaf case's unit is the unskipped one, one helper per
\* property of a leaf case
RustEmptyGroupHandled ==
    (EmptyGroups # {} /\ Succeeded) =>
        /\ TestChunks = [n \in 1..Len(Leaves) |->
                Chunk("test", set_skip(generate_test_function(Leaves[n]).text, n - 1 # 0))]
        /\ {PropertyChunks[n].text : n \in 1..Len(PropertyChunks)}
              = {generate_property_body(Leaves[n].property) : n \in 1..Len(Leaves)}

\* C19: an empty group is handled as a group by the Rust generator and by the
\* template: it yields no unit and no helper body, does not make the run or
\* the rendering fail, and the first leaf case keeps the unskipped slot.
C19_EmptyGroupHandled ==
    /\ RustEmptyGroupHandled
    /\ (EmptyGroups # {} /\ pc = "tpl_done") =>
          RenderedTests = [n \in 1..Len(Leaves) |->
                Chunk("test", set_skip(gen_test_fn(Leaves[n], FALSE).text, n - 1 # 0))]
    /\ (EmptyGroups # {} /\ pc = "tpl_failed") => (MalformedLeaf \/ CasesNotAnArray)

\* C20: when generate_tests_from_canonical_data has failed, the tests file
\* holds the rewritten preamble only and the formatter has not been run.
C20_AllOrNothing ==
    (tool = "util" /\ err # "" /\ pc # "ge_failed") =>
        /\ tests_file = << Chunk("preamble", updated_tests_content) >>
        /\ ~formatted
        /\ RustfmtCalls = <<>>

C20_Witness ==
    /\ pc = "failed"
    /\ err = "property inexpressable as str"
    /\ property_functions # EmptyMap
    /\ test_functions # <<>>
    /\ tests_file = << Chunk("preamble", updated_tests_content) >>

\* the commands that change something on disk or reach the network
Effectful == {"cargo new", "git clone", "configlet generate", "rustfmt"}

\* C21: when the exercise already exists, generate_exercise goes from its
\* start straight to its failure (an error in util/exercise, a panic in
\* init_exercise): no file or directory is created or modified, cargo is not
\* run, the canonical data is not fetched and no README is generated.
C21_ExistingExerciseUntouched ==
    exercise_exists =>
        /\ pc \in {"ge_start", "ge_failed", "panicked"}
        /\ pc = "ge_failed" => (tool = "util" /\ err = "exercise already exists")
        /\ pc = "panicked" => (tool = "init" /\ err = "Exercise already exists. Aborting")
        /\ fs = {}
        /\ tests_file = <<>>
        /\ \A n \in 1..Len(commands) : commands[n].cmd \notin Effectful
        /\ tool = "util" => commands = <<>>
        /\ canonical_data = NoDocument
        /\ "README.md" \notin fs

C21_Witness ==
    /\ exercise_exists
    /\ tool = "util"
    /\ pc = "ge_failed"
    /\ err = "exercise already exists"
    /\ fs = {}

\* every leaf case of the document has a string `property`
StringProperties ==
    \A n \in 1..Len(Leaves) : Leaves[n].property \in Props

\* what the claim compares of a sequence of chunks: the test units in order,
\* each with its name, its skip flag and the property it calls
UnitsIn(out) ==
    LET ts == SelectSeq(out, LAMBDA c : c.kind = "test") IN
    [n \in 1..Len(ts) |-> [name |-> NamesOf(ts[n].text),
                           skip |-> Ignored(ts[n].text),
                           property |-> CallsOf(ts[n].text)]]

\* the properties that get a helper body in a sequence of chunks
HelpersIn(out) ==
    LET ps == SelectSeq(out, LAMBDA c : c.kind = "property") IN
    UNION {HelperOf(ps[n].text) : n \in 1..Len(ps)}

\* the Rust generator's file and the template's rendering of the same
\* document agree: both fail, or both succeed with the same units and the
\* same helper set
SameTransform ==
    LET r == test_file(canonical_data) IN
    /\ Succeeded =>
          /\ r.msg = ""
          /\ UnitsIn(tests_file) = UnitsIn(r.out)
          /\ HelpersIn(tests_file) = HelpersIn(r.out)
    /\ pc = "failed" => r.msg # ""

\* C22: on every document whose leaf cases all have a string property, the
\* Rust generator and the test_file template yield the same sequence of test
\* units, the same skip flag for every unit and the same set of properties
\* with a helper body.
C22_SameTransform ==
    (tool = "util" /\ StringProperties) => SameTransform

\* the same on documents without an empty group
SameTransformWithoutEmptyGroups ==
    (tool = "util" /\ StringProperties /\ EmptyGroups = {}) => SameTransform

====
